---- MODULE Spec2Model ----
(***************************************************************************)
(* Conversation synchronisation core of the chat widget SDK:               *)
(*   - ChatSocket  (sdk-app/src/sdk-core/websocket/chatSocket.ts), the      *)
(*     transport client: connection life cycle, session handshake, framing; *)
(*   - ChatInput.vue (sdk-app/src/components/ChatInput.vue), the timeline   *)
(*     assembler: live reconstruction of messages, data-query groups and    *)
(*     app events from the server's event stream.                           *)
(* Texts are sequences of one-letter fragments, identifiers are strings.    *)
(***************************************************************************)
EXTENDS Integers, Sequences, FiniteSets, TLC

NULL == "null"

\* ------------------------------------------------------------------------
\* Bounds of the model
\* ------------------------------------------------------------------------
\* number of init/sendUserMessage promises that may be pending at one time
MaxPending == 2

\* inputs the callers and the server draw from
Tokens == {"t1", "t2"}
ConvIds == {"c1", "c2"}
MessageIds == {"m1", "m2"}
GroupIds == {"gA", "gB"}
Deltas == {"a", "b"}

VARIABLES
    chatSocket,   \* the ChatSocket instance: its private fields, its pending
                  \* promises, and what the last step emitted and settled
    widget,       \* the refs of the ChatInput component
    clock,        \* the wall clock read by new Date()
    ghost,        \* history of the frames delivered, kept for the properties
    lastStep,     \* the call, socket event or server frame of the last step
    queryClient,  \* the query cache: the cached message list of one conversation
                  \* and the send mutations in flight
    call,         \* a call of a pure function: its name, argument and result
    cxone         \* the module state of cxone-chat.ts and its init() calls

vars == <<chatSocket, widget, clock, ghost, lastStep, queryClient, call, cxone>>

\* ------------------------------------------------------------------------
\* Frames
\* ------------------------------------------------------------------------
\* client -> server: {type, payload} of socket.emit('message', ...)
ClientMessage(type, token, conv, messageId) ==
    [type |-> type, cxoneToken |-> token, conversationId |-> conv, messageId |-> messageId]

\* server -> client: {type, payload} of the 'server_event' listener.  tag is
\* not part of the frame: it records the conversation the server produced the
\* frame for.
ServerEvent(type, messageId, delta, content, groupId, eventType, conv, history, tag) ==
    [type |-> type, messageId |-> messageId, delta |-> delta, content |-> content,
     groupId |-> groupId, eventType |-> eventType, conversationId |-> conv,
     history |-> history, tag |-> tag]

\* what a step was: a call, a socket event, or the type of the frame it
\* dispatched together with the frame's tag, message id and group id
Step(type, tag, messageId, groupId) ==
    [type |-> type, tag |-> tag, messageId |-> messageId, groupId |-> groupId]

\* who awaits a promise: the continuation that runs when it settles
Owner(by, id) == [by |-> by, id |-> id]

\* ------------------------------------------------------------------------
\* ChatSocket
\* ------------------------------------------------------------------------
\* state after the constructor
NewChatSocket ==
    [socket |-> "null",                 \* "null" | "notconnected" | "connected"
     cxoneToken |-> NULL,
     conversationId |-> NULL,
     connectionState |-> "disconnected",
     connecting |-> FALSE,              \* the promise of the connect() call that
                                        \* created the socket is pending
     promises |-> <<>>,                 \* pending promises of init/sendUserMessage
     emitted |-> <<>>,                  \* frames the last step emitted
     settled |-> <<>>,                  \* promises the last step settled
     invoked |-> <<>>,                  \* eventHandlers slots the last step called
     initResolved |-> FALSE]            \* an init() issued since the last
                                        \* disconnect() has resolved

\* a promise returned by init() or sendUserMessage().  A promise settles once;
\* it leaves the pending list when it does.
Promise(kind, owner, state) ==
    [kind |-> kind,                     \* "init" | "user_message" | "connect"
     owner |-> owner,                   \* who awaits it
     state |-> state,                   \* "pending" | "resolved" | "rejected"
     ack |-> IF state = "pending" THEN "waiting" ELSE "none",
     timer |-> IF state = "pending" THEN "armed" ELSE "none",
     beforeDisconnect |-> FALSE]        \* disconnect() was called after the call

\* every call and callback starts with nothing emitted and nothing settled
Begin(s) == [s EXCEPT !.emitted = <<>>, !.settled = <<>>, !.invoked = <<>>]

\* record the outcome of a promise
Settle(s, p) ==
    [s EXCEPT !.settled = Append(@, p),
              !.initResolved = @ \/ (p.kind = "init" /\ p.state = "resolved"
                                     /\ ~p.beforeDisconnect)]

setConnectionState(s, state) ==
    IF s.connectionState # state THEN [s EXCEPT !.connectionState = state] ELSE s

\* private sendMessage(type, payload): emit and return a promise
ChatSocket_sendMessage(s, frame, owner) ==
    IF s.socket # "connected"
    THEN Settle(s, Promise(frame.type, owner, "rejected"))
    ELSE [s EXCEPT !.emitted = Append(@, frame),
                   !.promises = Append(@, Promise(frame.type, owner, "pending"))]

\* a plausible slip: the credential is stored before the connection check
ChatSocket_init_storesFirst(s, cxoneToken, conversationId, owner) ==
    LET s1 == [s EXCEPT !.cxoneToken = cxoneToken, !.conversationId = conversationId]
    IN IF s.socket # "connected"
       THEN Settle(s1, Promise("init", owner, "rejected"))
       ELSE ChatSocket_sendMessage(s1, ClientMessage("init", cxoneToken, conversationId, NULL), owner)

\* init(cxoneToken, conversationId?); NULL stands for an absent conversationId
ChatSocket_init(s, cxoneToken, conversationId, owner) ==
    IF s.socket # "connected"
    THEN Settle(s, Promise("init", owner, "rejected"))
    ELSE ChatSocket_sendMessage(
             [s EXCEPT !.cxoneToken = cxoneToken, !.conversationId = conversationId],
             ClientMessage("init", cxoneToken, conversationId, NULL), owner)

\* sendUserMessage(messageId, content)
ChatSocket_sendUserMessage(s, messageId, owner) ==
    IF s.socket # "connected"
    THEN Settle(s, Promise("user_message", owner, "rejected"))
    ELSE IF s.cxoneToken = NULL
    THEN Settle(s, Promise("user_message", owner, "rejected"))
    ELSE ChatSocket_sendMessage(s, ClientMessage("user_message", NULL, NULL, messageId), owner)

\* connect(): creates the socket unless one exists.  The promise of the call
\* that creates the socket stays pending until the socket's first connect or
\* connect_error event; the promise of any other call resolves in the call
ChatSocket_connect(s, owner) ==
    IF s.socket = "connected" THEN Settle(s, Promise("connect", owner, "resolved"))
    ELSE IF s.socket # "null"                 \* this.socket.connect(); resolve()
    THEN Settle(s, Promise("connect", owner, "resolved"))
    ELSE setConnectionState([s EXCEPT !.socket = "notconnected", !.connecting = TRUE],
                            "connecting")

\* resolve() or reject() of the promise of the connect() call that created the
\* socket: a promise settles once, later calls do nothing
SettleConnect(s, state) ==
    IF s.connecting
    THEN Settle([s EXCEPT !.connecting = FALSE],
                Promise("connect", Owner("connect", NULL), state))
    ELSE s

\* acknowledgments of frames emitted on a channel that closed never arrive
LoseAcks(ps) ==
    [i \in 1..Len(ps) |-> IF ps[i].ack = "waiting" THEN [ps[i] EXCEPT !.ack = "lost"] ELSE ps[i]]

\* disconnect()
ChatSocket_disconnect(s) ==
    IF s.socket # "null"
    THEN setConnectionState(
             [s EXCEPT !.socket = "null", !.cxoneToken = NULL,
                       !.connecting = FALSE,     \* the listeners go with the socket
                       !.initResolved = FALSE,
                       !.promises = [i \in 1..Len(@) |->
                                        [LoseAcks(@)[i] EXCEPT !.beforeDisconnect = TRUE]]],
             "disconnected")
    ELSE s

\* a plausible slip: the session is not replayed when the channel re-opens
onConnect_noReinit(s) ==
    SettleConnect(setConnectionState([s EXCEPT !.socket = "connected"], "connected"),
                  "resolved")

\* socket.on('connect')
onConnect(s) ==
    LET s1 == SettleConnect(
                  setConnectionState([s EXCEPT !.socket = "connected"], "connected"),
                  "resolved")
    IN IF s1.cxoneToken # NULL
       THEN ChatSocket_init(s1, s1.cxoneToken, s1.conversationId, Owner("reinit", NULL))
       ELSE s1

\* socket.on('connect_error')
onConnectError(s) == SettleConnect(setConnectionState(s, "error"), "rejected")

\* socket.on('reconnect_failed')
onReconnectFailed(s) == setConnectionState(s, "error")

\* socket.on('disconnect')
onDisconnect(s) ==
    setConnectionState([s EXCEPT !.socket = "notconnected", !.promises = LoseAcks(@)],
                       "disconnected")

\* socket.on('reconnect_attempt')
onReconnectAttempt(s) == setConnectionState(s, "reconnecting")

\* a plausible slip: the acknowledgment callback resolves whatever the server answered
ackCallback_ignoresError(p, res) ==
    [p EXCEPT !.ack = res, !.state = "resolved"]

\* the acknowledgment callback passed to emit(), on a pending promise:
\* res is "ok" (no error member) or "error"
ackCallback(p, res) ==
    [p EXCEPT !.ack = res,
              !.state = IF res = "error" THEN "rejected" ELSE "resolved"]

\* setTimeout(() => resolve(), 100), on a pending promise
timerCallback(p) ==
    [p EXCEPT !.timer = "fired", !.state = "resolved"]

\* the pending list without its i-th promise
Without(ps, i) == [j \in 1..(Len(ps) - 1) |-> IF j < i THEN ps[j] ELSE ps[j + 1]]

\* private handleInitAck(payload)
ChatSocket_handleInitAck(s, ev) ==
    [s EXCEPT !.conversationId = ev.conversationId]

\* the private handlers other than handleInitAck: this.eventHandlers.<slot>?.(payload)
ChatSocket_callHandler(s, slot) == [s EXCEPT !.invoked = Append(@, slot)]

\* a variant of handleServerEvent whose default case falls into the error case
ChatSocket_handleServerEvent_unknownIsError(s, ev) ==
    IF ev.type = "init_ack"
    THEN ChatSocket_callHandler(ChatSocket_handleInitAck(s, ev), "onInitAck")
    ELSE IF ev.type = "assistant_message_started"
    THEN ChatSocket_callHandler(s, "onAssistantMessageStarted")
    ELSE IF ev.type = "assistant_token"
    THEN ChatSocket_callHandler(s, "onAssistantToken")
    ELSE IF ev.type = "assistant_message_finished"
    THEN ChatSocket_callHandler(s, "onAssistantMessageFinished")
    ELSE IF ev.type = "app_event"
    THEN ChatSocket_callHandler(s, "onAppEvent")
    ELSE ChatSocket_callHandler(s, "onError")

\* private handleServerEvent(event): the switch on event.type.  Only init_ack
\* touches the socket's own state; an unknown type is logged and dropped
ChatSocket_handleServerEvent(s, ev) ==
    IF ev.type = "init_ack"
    THEN ChatSocket_callHandler(ChatSocket_handleInitAck(s, ev), "onInitAck")
    ELSE IF ev.type = "assistant_message_started"
    THEN ChatSocket_callHandler(s, "onAssistantMessageStarted")
    ELSE IF ev.type = "assistant_token"
    THEN ChatSocket_callHandler(s, "onAssistantToken")
    ELSE IF ev.type = "assistant_message_finished"
    THEN ChatSocket_callHandler(s, "onAssistantMessageFinished")
    ELSE IF ev.type = "app_event"
    THEN ChatSocket_callHandler(s, "onAppEvent")
    ELSE IF ev.type = "error"
    THEN ChatSocket_callHandler(s, "onError")
    ELSE s

\* ------------------------------------------------------------------------
\* ChatInput.vue: the refs of the component and its timeline assembler
\* ------------------------------------------------------------------------
\* props.token of the mounted widget (WebSocket mode)
WidgetToken == "t1"

\* longest text a message, a group or the streaming buffer accumulates
MaxText == 2
\* most entries the message list holds
MaxMessages == 2
\* most entries the app-event list holds
MaxAppEvents == 1
\* user messages sent in a behaviour
MaxSends == 1
\* promises the widget may be awaiting at one time
MaxAwaited == 1
\* grouped tokens delivered since the groups were last emptied or rebuilt
MaxGroupTokens == 4

\* refs after setup; the UI-only refs (isTyping, error, activeTab, the scroll
\* position) are not modelled
NewWidget ==
    [pc |-> "new",                      \* position of initialize()
     messages |-> <<>>,
     dataQueryGroups |-> <<>>,          \* the record's values, in key insertion order
     appEvents |-> <<>>,
     streamingMessageId |-> NULL,
     streamingContent |-> <<>>,
     conversationId |-> "",
     isSending |-> FALSE,
     cognigy |-> FALSE,                 \* isCognigyMode: props.token is 'custom-chat-token'
     http |-> NULL,                     \* id of the user message whose fetch() is pending
     sends |-> 0]                       \* user messages created so far (names their ids)

Message(id, text, sender, status, timestamp) ==
    [id |-> id, text |-> text, sender |-> sender, status |-> status, timestamp |-> timestamp]

DataQueryGroup(groupId, streamingText, isStreaming, result, quickAction, timestamp) ==
    [groupId |-> groupId, streamingText |-> streamingText, isStreaming |-> isStreaming,
     result |-> result, quickAction |-> quickAction, timestamp |-> timestamp]

AppEventWithTimestamp(eventType, groupId, timestamp) ==
    [eventType |-> eventType, groupId |-> groupId, timestamp |-> timestamp]

\* `streaming-${messageId}`
StreamingId(messageId) == "streaming-" \o messageId

\* messages.value.findIndex(m => m.id === id); 0 stands for -1
FindIndex(ms, id) ==
    IF \E i \in 1..Len(ms) : ms[i].id = id
    THEN CHOOSE i \in 1..Len(ms) : ms[i].id = id /\ \A j \in 1..(i - 1) : ms[j].id # id
    ELSE 0

\* dataQueryGroups.value[groupId]; 0 stands for undefined
GroupIndex(gs, groupId) ==
    IF \E i \in 1..Len(gs) : gs[i].groupId = groupId
    THEN CHOOSE i \in 1..Len(gs) : gs[i].groupId = groupId
    ELSE 0

\* dataQueryGroups.value[groupId] = g: an existing key keeps its position
SetGroup(gs, g) ==
    IF GroupIndex(gs, g.groupId) # 0
    THEN [gs EXCEPT ![GroupIndex(gs, g.groupId)] = g]
    ELSE Append(gs, g)

\* addMessageIfNotExists(message)
addMessageIfNotExists(ms, message) ==
    IF \E i \in 1..Len(ms) : ms[i].id = message.id THEN ms ELSE Append(ms, message)

\* handleAssistantMessageStarted(payload)
handleAssistantMessageStarted(w, ev) ==
    [w EXCEPT !.streamingMessageId = ev.messageId, !.streamingContent = <<>>]

\* a plausible slip: a grouped token is appended to every group
handleAssistantToken_allGroups(w, ev, now) ==
    IF ev.groupId # NULL
    THEN [w EXCEPT !.dataQueryGroups =
              IF GroupIndex(@, ev.groupId) # 0
              THEN [i \in 1..Len(@) |->
                       [@[i] EXCEPT !.streamingText = @ \o <<ev.delta>>, !.isStreaming = TRUE]]
              ELSE Append(@, DataQueryGroup(ev.groupId, <<ev.delta>>, TRUE, FALSE, FALSE, now))]
    ELSE w

\* handleAssistantToken(payload)
handleAssistantToken(w, ev, now) ==
    IF ev.groupId # NULL
    THEN LET i == GroupIndex(w.dataQueryGroups, ev.groupId)
         IN IF i # 0
            THEN [w EXCEPT !.dataQueryGroups[i] =
                      [@ EXCEPT !.streamingText = @ \o <<ev.delta>>, !.isStreaming = TRUE]]
            ELSE [w EXCEPT !.dataQueryGroups =
                      Append(@, DataQueryGroup(ev.groupId, <<ev.delta>>, TRUE, FALSE, FALSE, now))]
    ELSE LET content == w.streamingContent \o <<ev.delta>>
             existingIndex == FindIndex(w.messages, StreamingId(ev.messageId))
         IN IF existingIndex # 0
            THEN [w EXCEPT !.streamingContent = content,
                           !.messages[existingIndex] =
                               [@ EXCEPT !.text = content, !.status = "streaming"]]
            ELSE [w EXCEPT !.streamingContent = content,
                           !.messages = Append(@, Message(StreamingId(ev.messageId), content,
                                                          "bot", "streaming", now))]

\* handleAssistantMessageFinished(payload)
handleAssistantMessageFinished(w, ev, now) ==
    IF ev.groupId # NULL
    THEN LET i == GroupIndex(w.dataQueryGroups, ev.groupId)
         IN IF i # 0
            THEN [w EXCEPT !.dataQueryGroups[i] = [@ EXCEPT !.isStreaming = FALSE]]
            ELSE w
    ELSE LET streamingIndex == FindIndex(w.messages, StreamingId(ev.messageId))
             final == Message(ev.messageId, ev.content, "bot", "sent", now)
         IN [w EXCEPT !.messages = IF streamingIndex # 0
                                   THEN [@ EXCEPT ![streamingIndex] = final]
                                   ELSE addMessageIfNotExists(@, final),
                      !.streamingMessageId = NULL,
                      !.streamingContent = <<>>]

\* eventType.startsWith('data_query')
IsDataQueryType(eventType) ==
    eventType \in {"data_query_result", "data_query_quick_action", "data_query_started"}

\* handleAppEvent(payload)
handleAppEvent(w, ev, now) ==
    IF ev.groupId # NULL /\ IsDataQueryType(ev.eventType)
    THEN LET i == GroupIndex(w.dataQueryGroups, ev.groupId)
         IN IF ev.eventType = "data_query_result"
            THEN [w EXCEPT !.dataQueryGroups =
                      SetGroup(@, DataQueryGroup(ev.groupId,
                                                 IF i # 0 THEN @[i].streamingText ELSE <<>>,
                                                 TRUE, TRUE, FALSE, now))]
            ELSE IF ev.eventType = "data_query_quick_action" /\ i # 0
            THEN [w EXCEPT !.dataQueryGroups[i] = [@ EXCEPT !.quickAction = TRUE]]
            ELSE w
    ELSE [w EXCEPT !.appEvents = Append(@, AppEventWithTimestamp(ev.eventType, ev.groupId, now))]

\* an entry of the timeline; data is the source object, which its kind and its
\* position at in the source collection identify
TimelineItem(type, timestamp, at, data) ==
    [type |-> type, timestamp |-> timestamp, at |-> at, data |-> data]

\* items.sort((a, b) => a.timestamp.getTime() - b.timestamp.getTime()) on the
\* first n items: the sort is stable, an item goes behind every item that
\* compares less or equal
RECURSIVE SortByTimestamp(_, _)
SortByTimestamp(items, n) ==
    IF n = 0 THEN <<>>
    ELSE LET sorted == SortByTimestamp(items, n - 1)
             before == SelectSeq(sorted, LAMBDA x : x.timestamp <= items[n].timestamp)
             after == SelectSeq(sorted, LAMBDA x : x.timestamp > items[n].timestamp)
         IN before \o <<items[n]>> \o after

TimelineMessages(w) ==
    [i \in 1..Len(w.messages) |->
        TimelineItem("message", w.messages[i].timestamp, i, w.messages[i])]

TimelineGroups(w) ==
    [i \in 1..Len(w.dataQueryGroups) |->
        TimelineItem("dataQuery", w.dataQueryGroups[i].timestamp, i, w.dataQueryGroups[i])]

TimelineAppEvents(w) ==
    [i \in 1..Len(w.appEvents) |->
        TimelineItem("appEvent", w.appEvents[i].timestamp, i, w.appEvents[i])]

\* a variant of timeline that collects the application events first
timeline_appEventsFirst(w) ==
    LET items == TimelineAppEvents(w) \o TimelineMessages(w) \o TimelineGroups(w)
    IN SortByTimestamp(items, Len(items))

\* the computed timeline
timeline(w) ==
    LET items == TimelineMessages(w) \o TimelineGroups(w) \o TimelineAppEvents(w)
    IN SortByTimestamp(items, Len(items))

\* a message of the history an init_ack carries.  A tool message's content is
\* JSON text: tool says what it parses to ("structured": has structuredResult,
\* "draft": has draftId, "article": has articleId, "invalid": anything else),
\* historyItemId is the id found in a structured result, or NULL
BackendMessage(id, role, content, tool, historyItemId, createdAt) ==
    [id |-> id, role |-> role, content |-> content, tool |-> tool,
     historyItemId |-> historyItemId, createdAt |-> createdAt]

\* backendMessageToSDK(backendMsg)
backendMessageToSDK(backendMsg) ==
    Message(backendMsg.id, backendMsg.content,
            IF backendMsg.role = "assistant" THEN "bot" ELSE "user",
            "sent", backendMsg.createdAt)

\* the inner loop of handleInitAck: index of the next assistant message from
\* j on, stopping at a user or tool message; 0 when there is none
RECURSIVE DescriptionIndex(_, _)
DescriptionIndex(h, j) ==
    IF j > Len(h) THEN 0
    ELSE IF h[j].role = "assistant" THEN j
    ELSE IF h[j].role \in {"user", "tool"} THEN 0
    ELSE DescriptionIndex(h, j + 1)

\* the outer loop of handleInitAck from message i on; acc holds sdkMessages,
\* reconstructedGroups, reconstructedEvents and skipMessageIds
RECURSIVE Reconstruct(_, _, _)
Reconstruct(h, i, acc) ==
    IF i > Len(h) THEN acc
    ELSE LET msg == h[i]
             j == DescriptionIndex(h, i + 1)
             groupId == IF msg.historyItemId # NULL THEN msg.historyItemId
                        ELSE "tool-" \o msg.id
         IN IF msg.role = "tool"
            THEN IF msg.tool = "structured"
                 THEN Reconstruct(h, i + 1,
                          [acc EXCEPT
                              !.groups = SetGroup(@, DataQueryGroup(groupId,
                                              IF j # 0 THEN h[j].content ELSE <<>>,
                                              FALSE, TRUE, TRUE, msg.createdAt)),
                              !.skip = IF j # 0 THEN @ \cup {h[j].id} ELSE @])
                 ELSE IF msg.tool = "draft"
                 THEN Reconstruct(h, i + 1,
                          [acc EXCEPT !.events = Append(@,
                              AppEventWithTimestamp("email_draft_created", NULL, msg.createdAt))])
                 ELSE IF msg.tool = "article"
                 THEN Reconstruct(h, i + 1,
                          [acc EXCEPT !.events = Append(@,
                              AppEventWithTimestamp("knowledge_article_created", NULL, msg.createdAt))])
                 ELSE Reconstruct(h, i + 1, acc)
            ELSE IF msg.id \in acc.skip
            THEN Reconstruct(h, i + 1, acc)
            ELSE Reconstruct(h, i + 1, [acc EXCEPT !.sdk = Append(@, backendMessageToSDK(msg))])

\* new Map keyed by id filled in order: first position, last value
UniqueMessages(ms) ==
    LET idx == SelectSeq([i \in 1..Len(ms) |-> i],
                         LAMBDA i : \A j \in 1..(i - 1) : ms[j].id # ms[i].id)
        last(id) == CHOOSE i \in 1..Len(ms) :
                        ms[i].id = id /\ \A j \in (i + 1)..Len(ms) : ms[j].id # id
    IN [k \in 1..Len(idx) |-> ms[last(ms[idx[k]].id)]]

\* a variant of handleInitAck that keeps every non-tool entry as a message,
\* the folded descriptions included
handleInitAck_keepsDescriptions(w, ev) ==
    LET acc == Reconstruct(ev.history, 1,
                           [sdk |-> <<>>, groups |-> <<>>, events |-> <<>>, skip |-> {}])
        plain == SelectSeq(ev.history, LAMBDA m : m.role # "tool")
    IN [w EXCEPT !.conversationId = ev.conversationId,
                 !.messages = UniqueMessages([k \in 1..Len(plain) |-> backendMessageToSDK(plain[k])]),
                 !.dataQueryGroups = acc.groups,
                 !.appEvents = acc.events]

\* handleInitAck(payload)
handleInitAck(w, ev) ==
    LET acc == Reconstruct(ev.history, 1,
                           [sdk |-> <<>>, groups |-> <<>>, events |-> <<>>, skip |-> {}])
    IN [w EXCEPT !.conversationId = ev.conversationId,
                 !.messages = UniqueMessages(acc.sdk),
                 !.dataQueryGroups = acc.groups,
                 !.appEvents = acc.events]

\* the catch and finally blocks of sendMessage(), and the lines after its await
sendMessageSettled(w, p) ==
    LET index == FindIndex(w.messages, p.owner.id)
        status == IF p.state = "resolved" THEN "sent" ELSE "failed"
    IN [w EXCEPT !.messages = IF index # 0 THEN [@ EXCEPT ![index].status = status] ELSE @,
                 !.isSending = FALSE]

\* sendMessageToCognigy(text, messageId) from the point where fetch() settles:
\* outcome is "reply" (response ok, one bot message in it), "empty" (response
\* ok, nothing to show) or "failed" (fetch rejects or the status is not ok)
sendMessageToCognigy(w, messageId, outcome, now) ==
    IF outcome = "reply"
    THEN [w EXCEPT !.messages = Append(@, Message("bot-" \o messageId, <<"a">>, "bot", "sent", now))]
    ELSE IF outcome = "empty"
    THEN w
    ELSE [w EXCEPT !.messages = Append(@, Message("error-" \o messageId, <<"b">>, "bot", "sent", now))]

\* the lines of sendMessage() after `await sendMessageToCognigy(...)`, which
\* never rejects, and its finally block
sendMessageCognigyReturned(w, messageId) ==
    LET index == FindIndex(w.messages, messageId)
    IN [w EXCEPT !.messages = IF index # 0 THEN [@ EXCEPT ![index].status = "sent"] ELSE @,
                 !.isSending = FALSE,
                 !.http = NULL]

\* the continuation that awaits promise p, run when p settles
Continue(w, p) ==
    IF p.owner.by = "sendMessage" THEN sendMessageSettled(w, p)
    ELSE IF p.owner.by = "initialize" THEN [w EXCEPT !.pc = IF p.state = "resolved" THEN "ready" ELSE "failed"]
    ELSE w

\* ------------------------------------------------------------------------
\* The query cache of the message list (sdk-core/queries)
\* ------------------------------------------------------------------------
\* send mutations started in a behaviour
\* messages in the history an init_ack carries at the bootstrap
MaxHistory == 3
MaxMutations == 3

\* a QueryClient with nothing cached for the conversation; loaded = FALSE
\* stands for getQueryData() returning undefined
NewQueryClient ==
    [loaded |-> FALSE,
     messages |-> <<>>,
     mutations |-> <<>>,                \* contexts of the mutations in flight
     temps |-> 0]                       \* temporary ids generated so far

\* generateTempId(): a fresh id
generateTempId(n) == "temp-" \o ToString(n)

\* updateMessagesCache(queryClient, conversationId, newMessage)
updateMessagesCache(q, newMessage) ==
    IF ~q.loaded
    THEN [q EXCEPT !.loaded = TRUE, !.messages = <<newMessage>>]
    ELSE IF \E i \in 1..Len(q.messages) : q.messages[i].id = newMessage.id
    THEN [q EXCEPT !.messages = [i \in 1..Len(@) |->
                                    IF @[i].id = newMessage.id THEN newMessage ELSE @[i]]]
    ELSE [q EXCEPT !.messages = Append(@, newMessage)]

\* updateMessageInCache(queryClient, conversationId, messageId, {status})
updateMessageInCache(q, messageId, status) ==
    IF ~q.loaded THEN q
    ELSE [q EXCEPT !.messages = [i \in 1..Len(@) |->
                                    IF @[i].id = messageId
                                    THEN [@[i] EXCEPT !.status = status] ELSE @[i]]]

\* removeMessageFromCache(queryClient, conversationId, messageId)
removeMessageFromCache(q, messageId) ==
    IF ~q.loaded THEN q
    ELSE [q EXCEPT !.messages = SelectSeq(@, LAMBDA m : m.id # messageId)]

\* onMutate(variables): the optimistic message enters the cache
onMutate(q, now) ==
    LET optimisticMessage == Message(generateTempId(q.temps + 1), <<"a">>, "user", "sending", now)
    IN [updateMessagesCache(q, optimisticMessage) EXCEPT
           !.temps = @ + 1,
           !.mutations = Append(@, [optimisticMessage |-> optimisticMessage])]

\* onSuccess(serverMessage, variables, context)
onSuccess(q, serverMessage, context) ==
    updateMessagesCache(removeMessageFromCache(q, context.optimisticMessage.id),
                        [serverMessage EXCEPT !.status = "sent"])

\* a plausible slip: the optimistic message is rolled back instead of kept
onError_rollsBack(q, context) ==
    removeMessageFromCache(q, context.optimisticMessage.id)

\* onError(error, variables, context)
onError(q, context) ==
    updateMessageInCache(q, context.optimisticMessage.id, "failed")

\* ------------------------------------------------------------------------
\* textFilter.ts: texts are sequences of characters.  The tag name is written
\* with the one letter t, so <t> stands for <thinking> and </t> for </thinking>
\* ------------------------------------------------------------------------
OpenTag == <<"<", "t", ">">>

CloseTag == <<"<", "/", "t", ">">>

\* the i flag of the patterns
LowerCase(c) == IF c = "T" THEN "t" ELSE c

\* \s
IsSpace(c) == c \in {" ", "\n"}

\* tag matches text at position i
TagAt(text, i, tag) ==
    /\ i >= 1
    /\ i + Len(tag) - 1 <= Len(text)
    /\ \A k \in 1..Len(tag) : LowerCase(text[i + k - 1]) = tag[k]

\* the position of the first closing tag at or behind position i, 0 if none
FirstCloseFrom(text, i) ==
    IF \E j \in i..Len(text) : TagAt(text, j, CloseTag)
    THEN CHOOSE j \in i..Len(text) :
             /\ TagAt(text, j, CloseTag)
             /\ \A k \in i..(j - 1) : ~TagAt(text, k, CloseTag)
    ELSE 0

\* replace(/<thinking>[\s\S]*?<\/thinking>/gi, '') scanning from position i
RECURSIVE RemovePaired(_, _)
RemovePaired(text, i) ==
    IF i > Len(text) THEN <<>>
    ELSE IF TagAt(text, i, OpenTag) /\ FirstCloseFrom(text, i + Len(OpenTag)) # 0
    THEN RemovePaired(text, FirstCloseFrom(text, i + Len(OpenTag)) + Len(CloseTag))
    ELSE <<text[i]>> \o RemovePaired(text, i + 1)

\* replace(/<thinking>[\s\S]*$/gi, '')
RemoveUnterminated(text) ==
    IF \E i \in 1..Len(text) : TagAt(text, i, OpenTag)
    THEN SubSeq(text, 1, (CHOOSE i \in 1..Len(text) :
                             /\ TagAt(text, i, OpenTag)
                             /\ \A k \in 1..(i - 1) : ~TagAt(text, k, OpenTag)) - 1)
    ELSE text

\* replace(/<\/thinking>/gi, '') scanning from position i
RECURSIVE StripClosing(_, _)
StripClosing(text, i) ==
    IF i > Len(text) THEN <<>>
    ELSE IF TagAt(text, i, CloseTag) THEN StripClosing(text, i + Len(CloseTag))
    ELSE <<text[i]>> \o StripClosing(text, i + 1)

\* replace(/\s+/g, ' ') scanning from position i
RECURSIVE CollapseWhitespace(_, _)
CollapseWhitespace(text, i) ==
    IF i > Len(text) THEN <<>>
    ELSE IF IsSpace(text[i])
    THEN IF i < Len(text) /\ IsSpace(text[i + 1])
         THEN CollapseWhitespace(text, i + 1)
         ELSE <<" ">> \o CollapseWhitespace(text, i + 1)
    ELSE <<text[i]>> \o CollapseWhitespace(text, i + 1)

\* String.prototype.trim()
RECURSIVE Trim(_)
Trim(text) ==
    IF text = <<>> THEN text
    ELSE IF IsSpace(Head(text)) THEN Trim(Tail(text))
    ELSE IF IsSpace(text[Len(text)]) THEN Trim(SubSeq(text, 1, Len(text) - 1))
    ELSE text

\* the concatenation of a sequence of sequences
RECURSIVE Flatten(_)
Flatten(pieces) ==
    IF pieces = <<>> THEN <<>> ELSE Head(pieces) \o Flatten(Tail(pieces))

\* a variant of filterThinkingTags that strips the closing tags first
filterThinkingTags_stripsFirst(text) ==
    IF text = <<>> THEN text
    ELSE Trim(CollapseWhitespace(
             RemoveUnterminated(RemovePaired(StripClosing(text, 1), 1)), 1))

\* filterThinkingTags(text)
filterThinkingTags(text) ==
    IF text = <<>> THEN text
    ELSE Trim(CollapseWhitespace(
             StripClosing(RemoveUnterminated(RemovePaired(text, 1)), 1), 1))

\* ------------------------------------------------------------------------
\* ChatInput.vue: processOutputStack
\* ------------------------------------------------------------------------
\* an item of the output stack: messageId is data._cognigy._messageId or NULL,
\* text is the item's own text (<<>> when it has none), quickReplies is the
\* _quickReplies data or NoQuickReplies; its text may be empty, its replies
\* is the length of the quickReplies array or NoArray when there is no array
OutputItem(messageId, text, quickReplies) ==
    [messageId |-> messageId, text |-> text, quickReplies |-> quickReplies]

NoArray == -1

QuickRepliesData(text, replies) == [present |-> TRUE, text |-> text, replies |-> replies]

NoQuickReplies == [present |-> FALSE, text |-> <<>>, replies |-> NoArray]

\* a key of the Map: a message id, or no-id-<n>
GroupKey(noId, id) == [noId |-> noId, id |-> id]

\* the first loop of processOutputStack from item i on: groups is the Map in
\* insertion order, each entry a key and the positions of its items
RECURSIVE GroupItems(_, _, _, _)
GroupItems(outputStack, i, groups, noIdGroupCounter) ==
    IF i > Len(outputStack) THEN groups
    ELSE LET messageId == outputStack[i].messageId
             lastIsNoId == groups # <<>> /\ groups[Len(groups)].key.noId
             at == IF \E k \in 1..Len(groups) : groups[k].key = GroupKey(FALSE, messageId)
                   THEN CHOOSE k \in 1..Len(groups) : groups[k].key = GroupKey(FALSE, messageId)
                   ELSE 0
         IN IF messageId = NULL
            THEN IF lastIsNoId
                 THEN GroupItems(outputStack, i + 1,
                                 [groups EXCEPT ![Len(groups)].items = Append(@, i)],
                                 noIdGroupCounter)
                 ELSE GroupItems(outputStack, i + 1,
                                 Append(groups, [key |-> GroupKey(TRUE, ToString(noIdGroupCounter)),
                                                 items |-> <<i>>]),
                                 noIdGroupCounter + 1)
            ELSE IF at # 0
            THEN GroupItems(outputStack, i + 1,
                            [groups EXCEPT ![at].items = Append(@, i)], noIdGroupCounter)
            ELSE GroupItems(outputStack, i + 1,
                            Append(groups, [key |-> GroupKey(FALSE, messageId), items |-> <<i>>]),
                            noIdGroupCounter)

\* the text an item contributes in the first pass over a group
ItemText(item) ==
    IF item.text = <<>> /\ item.quickReplies.present /\ item.quickReplies.text # <<>>
    THEN item.quickReplies.text
    ELSE item.text

\* the first pass over the items of a group from item k on
RECURSIVE CombineText(_, _, _, _)
CombineText(outputStack, items, k, combinedText) ==
    IF k > Len(items) THEN combinedText
    ELSE LET text == Trim(ItemText(outputStack[items[k]]))
         IN CombineText(outputStack, items, k + 1,
                        IF text = <<>> THEN combinedText
                        ELSE IF combinedText # <<>> THEN combinedText \o <<"\n">> \o text
                        ELSE text)

\* the body of processOutputStack's second loop for one group: the messages
\* it pushes (one or none)
GroupMessage(outputStack, group) ==
    LET items == group.items
        withReplies == {k \in 1..Len(items) :
                           /\ outputStack[items[k]].quickReplies.present
                           /\ outputStack[items[k]].quickReplies.replies # NoArray}
        quickReplies == IF withReplies = {} THEN NoArray
                        ELSE outputStack[items[CHOOSE k \in withReplies :
                                 \A j \in withReplies : j <= k]].quickReplies.replies
        filtered == filterThinkingTags(CombineText(outputStack, items, 1, <<>>))
        withText == {k \in 1..Len(items) :
                        /\ outputStack[items[k]].quickReplies.present
                        /\ outputStack[items[k]].quickReplies.text # <<>>}
        quickRepliesText ==
            filterThinkingTags(outputStack[items[CHOOSE k \in withText :
                                   \A j \in withText : k <= j]].quickReplies.text)
        combinedText == IF quickReplies # NoArray /\ withText # {}
                        THEN IF Trim(filtered) # <<>>
                             THEN filtered \o <<"\n", "\n">> \o quickRepliesText
                             ELSE quickRepliesText
                        ELSE filtered
    IN IF Trim(combinedText) # <<>>
       THEN <<[key |-> group.key, text |-> Trim(combinedText), quickReplies |-> quickReplies]>>
       ELSE IF quickReplies # NoArray /\ quickReplies > 0
       THEN <<[key |-> group.key, text |-> <<>>, quickReplies |-> quickReplies]>>
       ELSE <<>>

\* processOutputStack(outputStack): the groups of the first loop and the
\* messages of the second
processOutputStack(outputStack) ==
    LET groups == GroupItems(outputStack, 1, <<>>, 0)
        made == [g \in 1..Len(groups) |-> GroupMessage(outputStack, groups[g])]
    IN [groups |-> groups, messages |-> Flatten(made)]

\* no call of a pure function has been made
NoCall == [fn |-> "none", input |-> <<>>, output |-> <<>>]

\* ------------------------------------------------------------------------
\* cxone-chat.ts: the module variables and the calls of CXOneChat.init
\* ------------------------------------------------------------------------
NewCXOneChat ==
    [instance |-> NULL,                 \* let instance
     webchatInstance |-> NULL,          \* let webchatInstance
     initWebchatCalls |-> 0,            \* invocations of window.initWebchat
     analyticsServices |-> 0,           \* registerAnalyticsService calls on a webchat
     built |-> 0,                       \* instance objects built so far
     calls |-> <<>>]                    \* the init() calls: position and result

\* an init() call at position pc ("fetch": awaiting fetchConversations,
\* "script": awaiting loadScript, "poll": awaiting the initWebchat poll,
\* "initWebchat": awaiting window.initWebchat, "returned", "threw"); result is
\* the instance it returned
InitCall(pc, result) == [pc |-> pc, result |-> result]

\* what the webchat library hands back: a webchat object per initWebchat call
WebchatName(n) == "webchat-" \o ToString(n)

\* the object literal of step 6
InstanceName(n) == "instance-" \o ToString(n)

\* CXOneChat.init(config) up to its first await
CXOneChat_init(c, context) ==
    IF c.instance # NULL
    THEN [c EXCEPT !.calls = Append(@, InitCall("returned", c.instance))]
    ELSE IF context = NULL
    THEN [c EXCEPT !.calls = Append(@, InitCall("threw", NULL))]
    ELSE [c EXCEPT !.calls = Append(@, InitCall("fetch", NULL))]

\* call k of init() continues behind the await it is at; ok says whether the
\* awaited promise resolved
CXOneChat_resume(c, k, ok) ==
    LET pc == c.calls[k].pc
    IN IF ~ok
       THEN [c EXCEPT !.calls[k] = InitCall("threw", NULL)]
       ELSE IF pc = "fetch"
       THEN [c EXCEPT !.calls[k] = InitCall("script", NULL)]
       ELSE IF pc = "script"
       THEN [c EXCEPT !.calls[k] = InitCall("poll", NULL)]
       ELSE IF pc = "poll"
       THEN [c EXCEPT !.calls[k] = InitCall("initWebchat", NULL),
                      !.initWebchatCalls = @ + 1]
       ELSE [c EXCEPT !.webchatInstance = WebchatName(c.built + 1),
                      !.analyticsServices = @ + 1,
                      !.instance = InstanceName(c.built + 1),
                      !.built = @ + 1,
                      !.calls[k] = InitCall("returned", InstanceName(c.built + 1))]

\* ------------------------------------------------------------------------
\* History kept for the properties
\* ------------------------------------------------------------------------
\* groupBase[g]:   description a group got from the history of the last init_ack
\* groupTokens:    group id and delta of the tokens that carried a group id, in
\*                 arrival order, since the group collection was last emptied
\*                 or rebuilt
\* msgDeltas[m]:   deltas of the ungrouped tokens that carried message id m, in
\*                 arrival order, since the pending message of m was opened
\* servedConvs:    conversations the server has acknowledged to this client
\* failedSends:    ids of the user messages whose outbound delivery failed
\* history:        the history carried by the init_ack of the bootstrap
NewGhost ==
    [groupBase |-> [g \in GroupIds |-> <<>>],
     groupTokens |-> <<>>,
     msgDeltas |-> [m \in MessageIds |-> <<>>],
     servedConvs |-> {},
     failedSends |-> {},
     history |-> <<>>]

\* a promise awaited by sendMessage() settled as p
GhostSettled(gh, p) ==
    IF p.owner.by = "sendMessage" /\ p.state = "rejected"
    THEN [gh EXCEPT !.failedSends = @ \cup {p.owner.id}]
    ELSE gh

GhostCleared(gh) ==
    [gh EXCEPT !.groupBase = [g \in GroupIds |-> <<>>],
               !.groupTokens = <<>>,
               !.msgDeltas = [m \in MessageIds |-> <<>>]]

\* the deltas of the logged tokens that carried group id g, in arrival order
GroupDeltas(gh, g) ==
    LET own == SelectSeq(gh.groupTokens, LAMBDA t : t.groupId = g)
    IN [i \in 1..Len(own) |-> own[i].delta]

\* w is the widget before the frame, w2 after it
GhostAfter(gh, w, w2, ev) ==
    IF ev.type = "init_ack"
    THEN [GhostCleared(gh) EXCEPT
             !.groupBase = [g \in GroupIds |->
                               IF GroupIndex(w2.dataQueryGroups, g) # 0
                               THEN w2.dataQueryGroups[GroupIndex(w2.dataQueryGroups, g)].streamingText
                               ELSE <<>>],
             !.servedConvs = @ \cup {ev.conversationId}]
    ELSE IF ev.type = "assistant_token" /\ ev.groupId # NULL
    THEN [gh EXCEPT !.groupTokens = Append(@, [groupId |-> ev.groupId, delta |-> ev.delta])]
    ELSE IF ev.type = "assistant_token"
    THEN [gh EXCEPT !.msgDeltas[ev.messageId] =
                        IF FindIndex(w.messages, StreamingId(ev.messageId)) # 0
                        THEN Append(@, ev.delta) ELSE <<ev.delta>>]
    ELSE IF ev.type = "assistant_message_finished" /\ ev.groupId = NULL
    THEN [gh EXCEPT !.msgDeltas[ev.messageId] = <<>>]
    ELSE gh

\* ------------------------------------------------------------------------
\* Inputs
\* ------------------------------------------------------------------------
\* histories an init_ack carries on the grouped path: none; a data-query
\* result and the assistant message that describes it
GroupHistories ==
    {<<>>,
     <<BackendMessage("h3", "tool", <<>>, "structured", "gA", 0),
       BackendMessage("h2", "assistant", <<"b">>, NULL, NULL, 0)>>}

\* histories an init_ack carries on the ungrouped path: none; a user message
\* and the assistant's answer m1
MessageHistories ==
    {<<>>,
     <<BackendMessage("h1", "user", <<"a">>, NULL, NULL, 0),
       BackendMessage("m1", "assistant", <<"a">>, NULL, NULL, 0)>>}

\* the entry at position i of a bootstrap history.  Ids are the server's
\* primary keys (one per entry), a history item id names one tool result, and
\* createdAt lies before the widget's clock
EntryKinds == {"user", "assistant", "system", "structured", "structuredNoId", "draft"}

HistoryTimes == {-2, -1}

EntryId(i) == "h" \o <<"1", "2", "3", "4", "5", "6", "7", "8", "9">>[i]

HistoryItemId(i) == "hi-" \o EntryId(i)

HistoryEntry(i, kind, createdAt) ==
    LET content == IF i % 2 = 1 THEN <<"a">> ELSE <<"b">>
    IN IF kind = "structured"
       THEN BackendMessage(EntryId(i), "tool", <<>>, "structured", HistoryItemId(i), createdAt)
       ELSE IF kind = "structuredNoId"
       THEN BackendMessage(EntryId(i), "tool", <<>>, "structured", NULL, createdAt)
       ELSE IF kind = "draft"
       THEN BackendMessage(EntryId(i), "tool", <<>>, "draft", NULL, createdAt)
       ELSE BackendMessage(EntryId(i), kind, content, NULL, NULL, createdAt)

\* histories of up to maxLen entries of every kind, in every order
BootstrapHistories(maxLen) ==
    UNION {{[i \in 1..n |-> HistoryEntry(i, f[i][1], f[i][2])] :
               f \in [1..n -> EntryKinds \X HistoryTimes]} : n \in 0..maxLen}

\* application events that arrive once the history is shown
LiveEvents ==
    {ServerEvent("app_event", NULL, NULL, <<>>, g, e, NULL, <<>>, "c1") :
        g \in {NULL, HistoryItemId(1)}, e \in {"data_query_result", "email_draft_created"}}

\* pieces a text is made of: whole tags in either case, parts of tags, letters
\* and whitespace
MaxPieces == 4

TextPieces ==
    {OpenTag, <<"<", "T", ">">>, CloseTag, <<"<">>, <<"t", ">">>, <<"x">>, <<"y">>,
     <<" ">>, <<"\n">>}

\* texts of up to maxLen pieces
Texts(maxLen) ==
    UNION {{Flatten(f) : f \in [1..n -> TextPieces]} : n \in 0..maxLen}

\* output stacks of up to maxLen items: with the message id A or B or none,
\* with the text x or none, and with no quick replies, quick replies with the
\* text y, quick replies without text, or a quick-replies text without replies
MaxStack == 3

OutputItems ==
    {OutputItem(m, t, q) :
        m \in {NULL, "A", "B"},
        t \in {<<>>, <<"x">>},
        q \in {NoQuickReplies, QuickRepliesData(<<"y">>, 1), QuickRepliesData(<<>>, 1),
               QuickRepliesData(<<"y">>, NoArray)}}

OutputStacks(maxLen) == UNION {[1..n -> OutputItems] : n \in 0..maxLen}

\* content of a finished frame
Contents == {<<"a", "b">>}

\* handshake acknowledgments the server can deliver
InitAckEvents(convs, histories) ==
    {ServerEvent("init_ack", NULL, NULL, <<>>, NULL, NULL, c, h, c) :
        c \in convs, h \in histories}

\* frames of the grouped path in conversation c1
GroupEvents ==
    InitAckEvents({"c1"}, GroupHistories)
    \cup {ServerEvent("assistant_token", "m1", d, <<>>, g, NULL, NULL, <<>>, "c1") :
        d \in Deltas, g \in GroupIds}
    \cup {ServerEvent("assistant_message_finished", "m1", NULL, c, g, NULL, NULL, <<>>, "c1") :
        c \in Contents, g \in GroupIds}
    \cup {ServerEvent("app_event", NULL, NULL, <<>>, g, "data_query_result", NULL, <<>>, "c1") :
        g \in GroupIds}

\* frames of the ungrouped path in conversation c1
MessageEvents ==
    InitAckEvents({"c1"}, MessageHistories)
    \cup {ServerEvent("assistant_message_started", m, NULL, <<>>, NULL, NULL, NULL, <<>>, "c1") :
        m \in MessageIds}
    \cup {ServerEvent("assistant_token", m, d, <<>>, NULL, NULL, NULL, <<>>, "c1") :
        m \in MessageIds, d \in Deltas}
    \cup {ServerEvent("assistant_message_finished", m, NULL, c, NULL, NULL, NULL, <<>>, "c1") :
        m \in MessageIds, c \in Contents}

\* frames of every kind, for message m1 and group gA; a streamed frame was
\* produced for one of the conversations the server has acknowledged
TaggedEvents(served) ==
    InitAckEvents(ConvIds, {<<>>})
    \cup {ServerEvent(ty, "m1", "a", <<"a">>, g, NULL, NULL, <<>>, t) :
        ty \in {"assistant_message_started", "assistant_token", "assistant_message_finished"},
        g \in {NULL, "gA"}, t \in served}
    \cup {ServerEvent("app_event", NULL, NULL, <<>>, g, e, NULL, <<>>, t) :
        g \in {NULL, "gA"}, e \in {"data_query_result", "email_draft_created"}, t \in served}

\* one frame of every type the server sends and one of a type the client
\* does not know, in conversation c1
RouterEvents ==
    InitAckEvents({"c1"}, MessageHistories)
    \cup {ServerEvent(ty, m, "a", <<"a">>, NULL, "email_draft_created", NULL, <<>>, "c1") :
             ty \in {"assistant_message_started", "assistant_token",
                     "assistant_message_finished", "app_event", "error", "unknown"},
             m \in {"m2"}}

\* frames delivered to a transport client without handlers: what matters is
\* their type, and the conversation an init_ack names
SocketEvents ==
    {ServerEvent("init_ack", NULL, NULL, <<>>, NULL, NULL, c, <<>>, c) : c \in ConvIds}
    \cup {ServerEvent(ty, "m1", "a", <<>>, NULL, NULL, NULL, <<>>, NULL) :
             ty \in {"assistant_message_started", "assistant_token",
                     "assistant_message_finished", "app_event", "error", "unknown"}}

\* the handler the ChatSocket hands a frame to, when the widget registered its table
Dispatch(w, slot, ev, now) ==
    IF slot = "onInitAck" THEN handleInitAck(w, ev)
    ELSE IF slot = "onAssistantMessageStarted" THEN handleAssistantMessageStarted(w, ev)
    ELSE IF slot = "onAssistantToken" THEN handleAssistantToken(w, ev, now)
    ELSE IF slot = "onAssistantMessageFinished" THEN handleAssistantMessageFinished(w, ev, now)
    ELSE IF slot = "onAppEvent" THEN handleAppEvent(w, ev, now)
    ELSE w

\* the handlers of the slots the router called, in the order of the calls
RECURSIVE DispatchAll(_, _, _, _)
DispatchAll(w, slots, ev, now) ==
    IF slots = <<>> THEN w
    ELSE DispatchAll(Dispatch(w, Head(slots), ev, now), Tail(slots), ev, now)

\* the model keeps texts and lists within its bounds
WithinBounds(w) ==
    /\ Len(w.messages) <= MaxMessages
    /\ Len(w.appEvents) <= MaxAppEvents
    /\ Len(w.streamingContent) <= MaxText
    /\ \A i \in 1..Len(w.dataQueryGroups) : Len(w.dataQueryGroups[i].streamingText) <= MaxText

\* at most MaxText tokens are delivered for one group or one pending message,
\* and at most MaxGroupTokens for all groups together
TokensWithinBounds(gh) ==
    /\ Len(gh.groupTokens) <= MaxGroupTokens
    /\ \A g \in GroupIds : Len(GroupDeltas(gh, g)) <= MaxText
    /\ \A m \in MessageIds : Len(gh.msgDeltas[m]) <= MaxText

\* ------------------------------------------------------------------------
\* Steps
\* ------------------------------------------------------------------------
Init ==
    /\ chatSocket = NewChatSocket
    /\ widget = NewWidget
    /\ clock = 0
    /\ ghost = NewGhost
    /\ lastStep = Step("new", NULL, NULL, NULL)
    /\ queryClient = NewQueryClient
    /\ call = NoCall
    /\ cxone = NewCXOneChat

Room(n) == Len(chatSocket.promises) + n <= MaxPending
CanCall == Room(1)
CanAwait == Len(chatSocket.promises) < MaxAwaited

\* the last promise a call settled in the call itself, if it threw
ThrewIn(s) ==
    /\ Len(s.settled) > 0
    /\ s.settled[Len(s.settled)].kind # "connect"
    /\ s.settled[Len(s.settled)].ack = "none"

\* ---- calls made directly on the transport client
ApiConnect ==
    /\ chatSocket' = ChatSocket_connect(Begin(chatSocket), Owner("api", NULL))
    /\ lastStep' = Step("connect", NULL, NULL, NULL)
    /\ UNCHANGED queryClient
    /\ UNCHANGED <<call, cxone>>
    /\ UNCHANGED <<widget, clock, ghost>>

ApiDisconnect ==
    /\ chatSocket' = ChatSocket_disconnect(Begin(chatSocket))
    /\ lastStep' = Step("disconnect", NULL, NULL, NULL)
    /\ UNCHANGED queryClient
    /\ UNCHANGED <<call, cxone>>
    /\ UNCHANGED <<widget, clock, ghost>>

ApiInit ==
    \E t \in Tokens, c \in ConvIds \cup {NULL} :
        /\ CanCall
        /\ chatSocket' = ChatSocket_init(Begin(chatSocket), t, c, Owner("api", NULL))
        /\ lastStep' = Step("init", NULL, NULL, NULL)
        /\ UNCHANGED queryClient
        /\ UNCHANGED <<call, cxone>>
        /\ UNCHANGED <<widget, clock, ghost>>

ApiSendUserMessage ==
    \E m \in MessageIds :
        /\ CanCall
        /\ chatSocket' = ChatSocket_sendUserMessage(Begin(chatSocket), m, Owner("api", NULL))
        /\ lastStep' = Step("sendUserMessage", NULL, NULL, NULL)
        /\ UNCHANGED queryClient
        /\ UNCHANGED <<call, cxone>>
        /\ UNCHANGED <<widget, clock, ghost>>

\* ---- calls made by the widget
\* the part of initialize() after `await chatSocket.connect()`
initializeConnected(s, w) ==
    LET s1 == ChatSocket_init(s, WidgetToken, NULL, Owner("initialize", NULL))
    IN <<s1, [w EXCEPT !.pc = IF ThrewIn(s1) THEN "failed" ELSE "awaitInit"]>>

\* onMounted: initialize() up to `await chatSocket.connect()`
Initialize ==
    /\ widget.pc = "new"
    /\ chatSocket' = ChatSocket_connect(Begin(chatSocket), Owner("initialize", NULL))
    /\ widget' = [widget EXCEPT !.pc = "awaitConnect"]
    /\ lastStep' = Step("initialize", NULL, NULL, NULL)
    /\ UNCHANGED queryClient
    /\ UNCHANGED <<call, cxone>>
    /\ UNCHANGED <<clock, ghost>>

\* retry(): initialize() again; connect() resolves at once on the existing socket
Retry ==
    /\ widget.pc \in {"failed", "ready"}
    /\ CanCall
    /\ LET r == initializeConnected(ChatSocket_connect(Begin(chatSocket),
                                                         Owner("initialize", NULL)), widget)
       IN chatSocket' = r[1] /\ widget' = r[2]
    /\ lastStep' = Step("retry", NULL, NULL, NULL)
    /\ UNCHANGED queryClient
    /\ UNCHANGED <<call, cxone>>
    /\ UNCHANGED <<clock, ghost>>

\* `msg-${Date.now()}-${Math.random()...}`: a fresh id
UserMessageId(n) == "msg-" \o ToString(n)

\* sendMessage() up to its await (chatSocket.sendUserMessage(...) or, in
\* Cognigy mode, the fetch() of sendMessageToCognigy), and its catch and finally
\* blocks when the call throws
SendMessage ==
    /\ widget.pc # "new"
    /\ ~widget.isSending
    /\ widget.cognigy \/ widget.conversationId # ""
    /\ widget.sends < MaxSends
    /\ Len(widget.messages) < MaxMessages
    /\ CanAwait
    /\ LET messageId == UserMessageId(widget.sends + 1)
           w1 == [widget EXCEPT !.messages = Append(@, Message(messageId, <<"a">>, "user",
                                                              "sending", clock)),
                                !.isSending = TRUE,
                                !.sends = @ + 1]
           s1 == ChatSocket_sendUserMessage(Begin(chatSocket), messageId,
                                            Owner("sendMessage", messageId))
       IN IF widget.cognigy
          THEN /\ chatSocket' = Begin(chatSocket)
               /\ widget' = [w1 EXCEPT !.http = messageId]
               /\ ghost' = ghost
          ELSE /\ chatSocket' = s1
               /\ widget' = IF ThrewIn(s1) THEN Continue(w1, s1.settled[Len(s1.settled)]) ELSE w1
               /\ ghost' = IF ThrewIn(s1) THEN GhostSettled(ghost, s1.settled[Len(s1.settled)])
                           ELSE ghost
    /\ lastStep' = Step("sendMessage", NULL, NULL, NULL)
    /\ UNCHANGED queryClient
    /\ UNCHANGED <<call, cxone>>
    /\ UNCHANGED clock

\* the fetch() of sendMessageToCognigy settles: the rest of
\* sendMessageToCognigy, then the rest of sendMessage()
EvHttpResponse ==
    \E outcome \in {"reply", "empty", "failed"} :
        /\ widget.http # NULL
        /\ LET w1 == sendMessageToCognigy(widget, widget.http, outcome, clock)
           IN /\ WithinBounds(w1)
              /\ widget' = sendMessageCognigyReturned(w1, widget.http)
        /\ ghost' = IF outcome = "failed"
                    THEN [ghost EXCEPT !.failedSends = @ \cup {widget.http}]
                    ELSE ghost
        /\ chatSocket' = Begin(chatSocket)
        /\ lastStep' = Step("httpResponse", NULL, NULL, NULL)
        /\ UNCHANGED queryClient
        /\ UNCHANGED <<call, cxone>>
        /\ UNCHANGED clock

\* handleSelectConversation(id) up to `await chatSocket.init(props.token, id)`
handleSelectConversation(w) ==
    [w EXCEPT !.messages = <<>>, !.appEvents = <<>>, !.dataQueryGroups = <<>>]

SelectConversationOf(ids) ==
    \E id \in ids :
        /\ widget.pc # "new"
        /\ CanAwait
        /\ widget' = handleSelectConversation(widget)
        /\ chatSocket' = ChatSocket_init(Begin(chatSocket), WidgetToken, id, Owner("select", NULL))
        /\ ghost' = GhostCleared(ghost)
        /\ lastStep' = Step("selectConversation", id, NULL, NULL)
        /\ UNCHANGED queryClient
        /\ UNCHANGED <<call, cxone>>
        /\ UNCHANGED clock

\* the user moves to another conversation of the history tab
SwitchConversation == SelectConversationOf(ConvIds)

\* the user selects conversation c1 (again)
ReloadConversation == SelectConversationOf({"c1"})

\* ---- socket events
EvConnect ==
    /\ chatSocket.socket = "notconnected"
    /\ Room((IF chatSocket.cxoneToken # NULL THEN 1 ELSE 0)
            + (IF widget.pc = "awaitConnect" THEN 1 ELSE 0))
    /\ LET s1 == onConnect(Begin(chatSocket))
           r == IF widget.pc = "awaitConnect" THEN initializeConnected(s1, widget)
                ELSE <<s1, widget>>
       IN chatSocket' = r[1] /\ widget' = r[2]
    /\ lastStep' = Step("onConnect", NULL, NULL, NULL)
    /\ UNCHANGED queryClient
    /\ UNCHANGED <<call, cxone>>
    /\ UNCHANGED <<clock, ghost>>

EvConnectError ==
    /\ chatSocket.socket = "notconnected"
    /\ chatSocket' = onConnectError(Begin(chatSocket))
    /\ widget' = IF widget.pc = "awaitConnect" THEN [widget EXCEPT !.pc = "failed"] ELSE widget
    /\ lastStep' = Step("onConnectError", NULL, NULL, NULL)
    /\ UNCHANGED queryClient
    /\ UNCHANGED <<call, cxone>>
    /\ UNCHANGED <<clock, ghost>>

EvDisconnect ==
    /\ chatSocket.socket = "connected"
    /\ chatSocket' = onDisconnect(Begin(chatSocket))
    /\ lastStep' = Step("onDisconnect", NULL, NULL, NULL)
    /\ UNCHANGED queryClient
    /\ UNCHANGED <<call, cxone>>
    /\ UNCHANGED <<widget, clock, ghost>>

EvReconnectAttempt ==
    /\ chatSocket.socket = "notconnected"
    /\ chatSocket' = onReconnectAttempt(Begin(chatSocket))
    /\ lastStep' = Step("onReconnectAttempt", NULL, NULL, NULL)
    /\ UNCHANGED queryClient
    /\ UNCHANGED <<call, cxone>>
    /\ UNCHANGED <<widget, clock, ghost>>

EvReconnectFailed ==
    /\ chatSocket.socket = "notconnected"
    /\ chatSocket' = onReconnectFailed(Begin(chatSocket))
    /\ lastStep' = Step("onReconnectFailed", NULL, NULL, NULL)
    /\ UNCHANGED queryClient
    /\ UNCHANGED <<call, cxone>>
    /\ UNCHANGED <<widget, clock, ghost>>

\* the server answers an emitted frame through the acknowledgment callback
EvAck ==
    \E i \in 1..Len(chatSocket.promises), res \in {"ok", "error"} :
        /\ chatSocket.socket = "connected"
        /\ chatSocket.promises[i].ack = "waiting"
        /\ LET p == ackCallback(chatSocket.promises[i], res)
           IN /\ chatSocket' = Settle([Begin(chatSocket) EXCEPT !.promises = Without(@, i)], p)
              /\ widget' = Continue(widget, p)
              /\ ghost' = GhostSettled(ghost, p)
        /\ lastStep' = Step("ack", NULL, NULL, NULL)
        /\ UNCHANGED queryClient
        /\ UNCHANGED <<call, cxone>>
        /\ UNCHANGED clock

\* the 100 ms timer of a pending promise fires
EvTimer ==
    \E i \in 1..Len(chatSocket.promises) :
        /\ LET p == timerCallback(chatSocket.promises[i])
           IN /\ chatSocket' = Settle([Begin(chatSocket) EXCEPT !.promises = Without(@, i)], p)
              /\ widget' = Continue(widget, p)
        /\ lastStep' = Step("timer", NULL, NULL, NULL)
        /\ UNCHANGED queryClient
        /\ UNCHANGED <<call, cxone>>
        /\ UNCHANGED <<clock, ghost>>

\* socket.on('server_event') for a frame ev: handleServerEvent, then the
\* registered handler
Receive(ev, history) ==
    /\ chatSocket.socket = "connected"
    /\ LET routed == ChatSocket_handleServerEvent(Begin(chatSocket), ev)
           w2 == IF widget.pc # "new"
                 THEN DispatchAll(widget, routed.invoked, ev, clock) ELSE widget
       IN /\ WithinBounds(w2)
          /\ widget' = w2
          /\ TokensWithinBounds(GhostAfter(ghost, widget, w2, ev))
          /\ ghost' = [GhostAfter(ghost, widget, w2, ev) EXCEPT !.history = history]
    /\ chatSocket' = ChatSocket_handleServerEvent(Begin(chatSocket), ev)
    /\ lastStep' = Step(ev.type, ev.tag, ev.messageId, ev.groupId)
    /\ UNCHANGED queryClient
    /\ UNCHANGED <<call, cxone>>
    /\ UNCHANGED clock

Deliver(ev) == Receive(ev, ghost.history)

EvServerEvent == \E ev \in SocketEvents : Deliver(ev)

EvGroupEvent == \E ev \in GroupEvents : Deliver(ev)

EvMessageEvent == \E ev \in MessageEvents : Deliver(ev)

EvTaggedEvent == \E ev \in TaggedEvents(ghost.servedConvs) : Deliver(ev)

EvRoutedEvent == \E ev \in RouterEvents : Deliver(ev)

\* the init_ack that answers the handshake of initialize(): the bootstrap
Bootstrap ==
    /\ lastStep.type = "new"
    /\ \E h \in BootstrapHistories(MaxHistory) :
           Receive(ServerEvent("init_ack", NULL, NULL, <<>>, NULL, NULL, "c1", h, "c1"), h)

EvLiveEvent ==
    /\ lastStep.type # "new"
    /\ \E ev \in LiveEvents : Deliver(ev)

\* ---- the text filter
FilterThinkingTags ==
    /\ call.fn = "none"
    /\ call' = [call EXCEPT !.fn = "filterThinkingTags",
                            !.output = filterThinkingTags(call.input)]
    /\ lastStep' = Step("filterThinkingTags", NULL, NULL, NULL)
    /\ UNCHANGED <<chatSocket, widget, clock, ghost, queryClient, cxone>>

\* ---- the output stack of a Cognigy response
ProcessOutputStack ==
    /\ call.fn = "none"
    /\ call' = [call EXCEPT !.fn = "processOutputStack",
                            !.output = processOutputStack(call.input)]
    /\ lastStep' = Step("processOutputStack", NULL, NULL, NULL)
    /\ UNCHANGED <<chatSocket, widget, clock, ghost, queryClient, cxone>>

\* ---- CXOneChat.init
MaxInitCalls == 3

\* the host page calls CXOneChat.init(config), with or without a context
CallInit ==
    \E context \in {NULL, "actions"} :
        /\ Len(cxone.calls) < MaxInitCalls
        /\ cxone' = CXOneChat_init(cxone, context)
        /\ lastStep' = Step("CXOneChat.init", NULL, NULL, NULL)
        /\ UNCHANGED <<chatSocket, widget, clock, ghost, queryClient, call>>

\* the promise call k awaits settles.  fetchConversations catches its errors
\* and always resolves; the script load, the poll and initWebchat can fail
ResumeInit ==
    \E k \in 1..Len(cxone.calls), ok \in BOOLEAN :
        /\ cxone.calls[k].pc \in {"fetch", "script", "poll", "initWebchat"}
        /\ cxone.calls[k].pc = "fetch" => ok
        /\ cxone' = CXOneChat_resume(cxone, k, ok)
        /\ lastStep' = Step("CXOneChat.resume", NULL, NULL, NULL)
        /\ UNCHANGED <<chatSocket, widget, clock, ghost, queryClient, call>>

\* ---- the send mutation
\* mutate({text}): onMutate runs, then the request is in flight
Mutate ==
    /\ queryClient.temps < MaxMutations
    /\ queryClient' = onMutate(queryClient, clock)
    /\ lastStep' = Step("mutate", NULL, NULL, NULL)
    /\ UNCHANGED <<chatSocket, widget, clock, ghost, call, cxone>>

\* the POST of mutation i succeeds: the server returns the stored message
MutationSuccess ==
    \E i \in 1..Len(queryClient.mutations) :
        LET context == queryClient.mutations[i]
            serverMessage == Message("srv-" \o context.optimisticMessage.id, <<"a">>, "user",
                                     "delivered", clock)
        IN /\ queryClient' = [onSuccess(queryClient, serverMessage, context) EXCEPT
                                  !.mutations = Without(@, i)]
           /\ lastStep' = Step("mutationSuccess", NULL, context.optimisticMessage.id, NULL)
           /\ UNCHANGED <<chatSocket, widget, clock, ghost, call, cxone>>

\* the POST of mutation i fails server-side
MutationError ==
    \E i \in 1..Len(queryClient.mutations) :
        LET context == queryClient.mutations[i]
        IN /\ queryClient' = [onError(queryClient, context) EXCEPT
                                  !.mutations = Without(@, i)]
           /\ lastStep' = Step("mutationError", NULL, context.optimisticMessage.id, NULL)
           /\ UNCHANGED <<chatSocket, widget, clock, ghost, call, cxone>>

\* retryFailedMessage(queryClient, conversationId, messageId, mutate)
RetryFailedMessage ==
    \E i \in 1..Len(queryClient.messages) :
        /\ queryClient.messages[i].status = "failed"
        /\ queryClient.temps < MaxMutations
        /\ queryClient' = onMutate(removeMessageFromCache(queryClient, queryClient.messages[i].id),
                                   clock)
        /\ lastStep' = Step("retryFailedMessage", NULL, queryClient.messages[i].id, NULL)
        /\ UNCHANGED <<chatSocket, widget, clock, ghost, call, cxone>>

\* the message list of the conversation when the first send starts: nothing
\* cached, an empty list, or one message the server confirmed earlier
InitCache ==
    /\ chatSocket = NewChatSocket
    /\ widget = NewWidget
    /\ clock = 0
    /\ ghost = NewGhost
    /\ lastStep = Step("new", NULL, NULL, NULL)
    /\ queryClient \in {NewQueryClient,
                         [NewQueryClient EXCEPT !.loaded = TRUE],
                         [NewQueryClient EXCEPT !.loaded = TRUE,
                              !.messages = <<Message("srv-0", <<"b">>, "user", "sent", 0)>>]}
    /\ call = NoCall
    /\ cxone = NewCXOneChat

NextCache ==
    \/ Mutate
    \/ MutationSuccess
    \/ MutationError
    \/ RetryFailedMessage

SpecCache == InitCache /\ [][NextCache]_vars

\* the text filter applied to a text
InitFilter ==
    /\ chatSocket = NewChatSocket
    /\ widget = NewWidget
    /\ clock = 0
    /\ ghost = NewGhost
    /\ lastStep = Step("new", NULL, NULL, NULL)
    /\ queryClient = NewQueryClient
    /\ call \in {[NoCall EXCEPT !.input = text] : text \in Texts(MaxPieces)}
    /\ cxone = NewCXOneChat

NextFilter ==
    \/ FilterThinkingTags

SpecFilter == InitFilter /\ [][NextFilter]_vars

\* processOutputStack applied to an output stack
InitStack ==
    /\ chatSocket = NewChatSocket
    /\ widget = NewWidget
    /\ clock = 0
    /\ ghost = NewGhost
    /\ lastStep = Step("new", NULL, NULL, NULL)
    /\ queryClient = NewQueryClient
    /\ call \in {[NoCall EXCEPT !.input = stack] : stack \in OutputStacks(MaxStack)}
    /\ cxone = NewCXOneChat

NextStack ==
    \/ ProcessOutputStack

SpecStack == InitStack /\ [][NextStack]_vars

\* the embedding script: calls of CXOneChat.init and their network steps
NextCXOne ==
    \/ CallInit
    \/ ResumeInit

SpecCXOne == Init /\ [][NextCXOne]_vars

\* the transport client used on its own (no handler table registered)
NextSocket ==
    \/ ApiConnect
    \/ ApiDisconnect
    \/ ApiInit
    \/ ApiSendUserMessage
    \/ EvConnect
    \/ EvConnectError
    \/ EvDisconnect
    \/ EvReconnectAttempt
    \/ EvReconnectFailed
    \/ EvAck
    \/ EvTimer
    \/ EvServerEvent

SpecSocket == Init /\ [][NextSocket]_vars

\* the widget from mount to its first handshake
NextMount ==
    \/ Initialize
    \/ Retry
    \/ EvConnect
    \/ EvConnectError
    \/ EvDisconnect
    \/ EvAck
    \/ EvTimer

SpecMount == Init /\ [][NextMount]_vars

\* the widget once initialize() has completed on an open channel: mounted,
\* connected, the handshake for props.token sent and its promise resolved
InitReady ==
    /\ chatSocket = [NewChatSocket EXCEPT !.socket = "connected",
                                          !.connectionState = "connected",
                                          !.cxoneToken = WidgetToken,
                                          !.initResolved = TRUE]
    /\ widget = [NewWidget EXCEPT !.pc = "ready"]
    /\ clock = 0
    /\ ghost = NewGhost
    /\ lastStep = Step("new", NULL, NULL, NULL)
    /\ queryClient = NewQueryClient
    /\ call = NoCall
    /\ cxone = NewCXOneChat

\* InitReady is a state the mounted widget reaches (up to what the last step was)
ReadyReached ==
    /\ chatSocket = [NewChatSocket EXCEPT !.socket = "connected",
                                          !.connectionState = "connected",
                                          !.cxoneToken = WidgetToken,
                                          !.initResolved = TRUE,
                                          !.settled = chatSocket.settled]
    /\ widget = [NewWidget EXCEPT !.pc = "ready"]
    /\ ghost = NewGhost

\* the initialised widget on a channel that stays open: the grouped path of
\* one conversation
NextGroups ==
    \/ ReloadConversation
    \/ EvTimer
    \/ EvGroupEvent

SpecGroups == InitReady /\ [][NextGroups]_vars

\* the initialised widget receives its history, then application events
NextBootstrap ==
    \/ Bootstrap
    \/ EvLiveEvent

SpecBootstrap == InitReady /\ [][NextBootstrap]_vars

\* the initialised widget on a channel that stays open receives frames of
\* every type
NextRouter ==
    \/ EvRoutedEvent

SpecRouter == InitReady /\ [][NextRouter]_vars

\* the widget mounted in Cognigy mode: initialize() takes the session id as
\* conversation id and never touches the ChatSocket
InitCognigy ==
    /\ chatSocket = NewChatSocket
    /\ widget = [NewWidget EXCEPT !.pc = "ready", !.cognigy = TRUE,
                                  !.conversationId = "session"]
    /\ clock = 0
    /\ ghost = NewGhost
    /\ lastStep = Step("new", NULL, NULL, NULL)
    /\ queryClient = NewQueryClient
    /\ call = NoCall
    /\ cxone = NewCXOneChat

\* the initialised widget in either transport mode (on a channel that stays
\* open, or in Cognigy mode): user sends and the ungrouped path of one
\* conversation
Next ==
    \/ SendMessage
    \/ ReloadConversation
    \/ EvAck
    \/ EvTimer
    \/ EvHttpResponse
    \/ EvMessageEvent

Spec == (InitReady \/ InitCognigy) /\ [][Next]_vars

\* the initialised widget on a channel that drops and re-opens: user sends
\* and the ungrouped path of one conversation
NextDrop ==
    \/ SendMessage
    \/ EvDisconnect
    \/ EvConnect
    \/ EvAck
    \/ EvTimer
    \/ EvMessageEvent

SpecDrop == InitReady /\ [][NextDrop]_vars

\* the initialised widget on a channel that may drop: switching between
\* conversations while frames of either arrive
NextSwitch ==
    \/ SwitchConversation
    \/ EvTimer
    \/ EvTaggedEvent
    \/ EvDisconnect

SpecSwitch == InitReady /\ [][NextSwitch]_vars

\* ------------------------------------------------------------------------
\* Properties of the timeline assembler
\* ------------------------------------------------------------------------
\* number of entries of ms that bear identifier id
CountId(ms, id) == Cardinality({i \in 1..Len(ms) : ms[i].id = id})

\* the group ids of the logged grouped tokens, in arrival order
TokenOrder == [i \in 1..Len(ghost.groupTokens) |-> ghost.groupTokens[i].groupId]

\* C1: whatever the interleaving of the tokens of groups A and B, the
\* accumulated text of every group is the text it was rebuilt with followed by
\* the deltas of the tokens that carried its own group id, in arrival order
C1_GroupTextIsOwnDeltas ==
    \A i \in 1..Len(widget.dataQueryGroups) :
        LET g == widget.dataQueryGroups[i]
        IN g.streamingText = ghost.groupBase[g.groupId] \o GroupDeltas(ghost, g.groupId)

\* C1 witness: tokens arrived in the order A,B,A,B with different deltas and
\* both groups hold their own two deltas
C1_Witness ==
    /\ TokenOrder = <<"gA", "gB", "gA", "gB">>
    /\ GroupDeltas(ghost, "gA") = <<"a", "b">>
    /\ GroupDeltas(ghost, "gB") = <<"b", "a">>
    /\ Len(widget.dataQueryGroups) = 2
    /\ lastStep.type = "assistant_token"

\* C2 (as claimed): no two entries of the message collection bear the same
\* identifier
C2_MessageIdsUnique ==
    \A i, j \in 1..Len(widget.messages) :
        i # j => widget.messages[i].id # widget.messages[j].id

\* C3 (as claimed): when an ungrouped finished frame arrives for a message id
\* that an entry already bears, there is exactly one entry with that id
\* afterwards
C3_SecondFinishedKeepsOneEntry ==
    [][ (/\ lastStep'.type = "assistant_message_finished"
         /\ lastStep'.groupId = NULL
         /\ CountId(widget.messages, lastStep'.messageId) > 0)
            => CountId(widget'.messages, lastStep'.messageId) = 1
      ]_vars

\* C4 (as claimed): the text of the pending message of every message id M is
\* the in-order concatenation of the deltas of the ungrouped tokens that
\* carried M
C4_PendingTextIsOwnDeltas ==
    \A m \in MessageIds :
        LET i == FindIndex(widget.messages, StreamingId(m))
        IN i # 0 => widget.messages[i].text = ghost.msgDeltas[m]

\* ------------------------------------------------------------------------
\* Properties of the transport client
\* ------------------------------------------------------------------------
\* a promise that was rejected by the precondition check of the call itself
Thrown(p) == p.state = "rejected" /\ p.ack = "none"

\* C5: a forced disconnect keeps the credential T and the conversation id C;
\* the step that re-enters the connected state with T held emits exactly the
\* frame init(T, C) by itself and keeps T and C; and from then on a
\* sendUserMessage call is never refused while the channel is open and T is held.
C5_ReconnectReplaysSession ==
    [][ /\ (chatSocket.socket = "connected" /\ chatSocket'.socket = "notconnected")
            => /\ chatSocket'.cxoneToken = chatSocket.cxoneToken
               /\ chatSocket'.conversationId = chatSocket.conversationId
        /\ (chatSocket.socket = "notconnected" /\ chatSocket'.socket = "connected"
            /\ chatSocket.cxoneToken # NULL)
            => /\ chatSocket'.emitted =
                    <<ClientMessage("init", chatSocket.cxoneToken,
                                    chatSocket.conversationId, NULL)>>
               /\ chatSocket'.cxoneToken = chatSocket.cxoneToken
               /\ chatSocket'.conversationId = chatSocket.conversationId
        /\ (ApiSendUserMessage /\ chatSocket.socket = "connected"
            /\ chatSocket.cxoneToken # NULL)
            => /\ Len(chatSocket'.emitted) = 1
               /\ chatSocket'.emitted[1].type = "user_message"
               /\ chatSocket'.settled = <<>>
      ]_vars

\* C5 witness: the session was replayed on reconnect (its promise is still
\* pending) with conversation c2, and a user message was then emitted
C5_Witness ==
    /\ Len(chatSocket.emitted) = 1
    /\ chatSocket.emitted[1].type = "user_message"
    /\ chatSocket.conversationId = "c2"
    /\ \E i \in 1..Len(chatSocket.promises) : chatSocket.promises[i].owner.by = "reinit"

\* C6 (as claimed): a started, token, finished or app-event frame produced
\* for a conversation other than the active one changes none of the messages,
\* groups and app events
C6_StaleFrameDropped ==
    [][ (/\ lastStep'.type \in {"assistant_message_started", "assistant_token",
                                "assistant_message_finished", "app_event"}
         /\ lastStep'.tag # chatSocket.conversationId)
            => /\ widget'.messages = widget.messages
               /\ widget'.dataQueryGroups = widget.dataQueryGroups
               /\ widget'.appEvents = widget.appEvents
      ]_vars

\* C7 (as claimed): the step that switches to another conversation leaves no
\* pending message, no streaming text, no streaming message id and no group
C7_SwitchDiscardsAssemblerState ==
    [][ (lastStep'.type = "selectConversation" /\ lastStep'.tag # chatSocket.conversationId)
            => /\ widget'.messages = <<>>
               /\ widget'.dataQueryGroups = <<>>
               /\ widget'.streamingContent = <<>>
               /\ widget'.streamingMessageId = NULL
      ]_vars

\* C8 (as claimed): an init promise never resolves while no init_ack frame
\* has arrived
C8_InitResolvesOnlyAfterInitAck ==
    \A i \in 1..Len(chatSocket.settled) :
        LET p == chatSocket.settled[i]
        IN (p.kind = "init" /\ p.state = "resolved") => ghost.servedConvs # {}

\* C8 (amended): an init promise resolves only when the transport-level
\* acknowledgment callback reported no error or the 100 ms timer fired; it is
\* rejected only by the precondition check or by an acknowledgment with an error
C8_InitResolvesOnAckOrTimer ==
    \A i \in 1..Len(chatSocket.settled) :
        LET p == chatSocket.settled[i]
        IN p.kind = "init" =>
              /\ p.state = "resolved" => (p.ack = "ok" \/ p.timer = "fired")
              /\ p.state = "rejected" => (p.ack = "none" \/ p.ack = "error")

\* C8 witness: an init promise resolved by the timer, no init_ack handled
C8_Witness ==
    \E i \in 1..Len(chatSocket.settled) :
        LET p == chatSocket.settled[i]
        IN /\ p.kind = "init" /\ p.state = "resolved" /\ p.timer = "fired"
           /\ ghost.servedConvs = {}

\* C9 (as claimed): a user_message frame is emitted only when an init issued
\* since the last disconnect() has resolved
C9_SendRequiresSuccessfulInit ==
    \A i \in 1..Len(chatSocket.emitted) :
        chatSocket.emitted[i].type = "user_message" => chatSocket.initResolved

\* C10: an init or sendUserMessage call made while the channel is not open is
\* rejected in the call itself, emits nothing, leaves no pending promise and
\* leaves the stored credential and conversation id as they were
C10_CallWhileClosedFails ==
    [][ ((ApiInit \/ ApiSendUserMessage) /\ chatSocket.socket # "connected")
            => /\ chatSocket'.emitted = <<>>
               /\ Len(chatSocket'.settled) = 1
               /\ Thrown(chatSocket'.settled[1])
               /\ chatSocket'.promises = chatSocket.promises
               /\ chatSocket'.cxoneToken = chatSocket.cxoneToken
               /\ chatSocket'.conversationId = chatSocket.conversationId
      ]_vars

\* C10 witness: the channel dropped while credential t1 was held, and an init
\* call was refused
C10_Witness ==
    /\ chatSocket.socket = "notconnected"
    /\ chatSocket.cxoneToken = "t1"
    /\ chatSocket.settled = <<Promise("init", Owner("api", NULL), "rejected")>>

\* C11 (as claimed): a connect() promise resolves only when the channel is open
\* and the client is in state connected
C11_ConnectResolvesWhenOpen ==
    \A i \in 1..Len(chatSocket.settled) :
        LET p == chatSocket.settled[i]
        IN (p.kind = "connect" /\ p.state = "resolved")
              => /\ chatSocket.socket = "connected"
                 /\ chatSocket.connectionState = "connected"

\* the transitions of the specified connection machine
MachineTransitions ==
    {<<"disconnected", "connecting">>, <<"connecting", "connected">>,
     <<"connected", "disconnected">>, <<"connected", "reconnecting">>,
     <<"reconnecting", "connected">>}

\* C12 (as claimed): every change of the connection state that enters
\* connected is a transition of the specified machine: connected is entered
\* from connecting or from reconnecting, never directly from disconnected or
\* from error
C12_ConnectedEnteredByMachine ==
    [][ (chatSocket'.connectionState # chatSocket.connectionState
         /\ chatSocket'.connectionState = "connected")
            => <<chatSocket.connectionState, chatSocket'.connectionState>>
                   \in MachineTransitions
      ]_vars

\* C13 (as claimed): right after a disconnect() call the client is in state
\* disconnected and stores neither a credential nor a conversation identifier
C13_DisconnectClearsSession ==
    lastStep.type = "disconnect"
        => /\ chatSocket.connectionState = "disconnected"
           /\ chatSocket.cxoneToken = NULL
           /\ chatSocket.conversationId = NULL

\* ------------------------------------------------------------------------
\* Properties of the widget's error handling
\* ------------------------------------------------------------------------
\* C14 (as claimed): the timeline entry of a user message whose outbound
\* delivery failed has status failed, in WebSocket mode and in Cognigy mode
C14_FailedSendIsMarkedFailed ==
    \A m \in ghost.failedSends :
        LET i == FindIndex(widget.messages, m)
        IN i # 0 => widget.messages[i].status = "failed"

\* C15: the step in which a send mutation fails leaves exactly one cached
\* entry for that message, with status failed, and leaves every other entry of
\* the list as it was
C15_FailedMutationKeepsOneFailedEntry ==
    [][ lastStep'.type = "mutationError"
            => LET id == lastStep'.messageId
                   old == queryClient.messages
                   new == queryClient'.messages
               IN /\ CountId(new, id) = 1
                  /\ new[FindIndex(new, id)].status = "failed"
                  /\ Len(new) = Len(old)
                  /\ \A j \in 1..Len(old) : old[j].id # id => new[j] = old[j]
      ]_vars

\* C15 witness: a mutation failed while the list held a message confirmed
\* earlier and the entry of another mutation; both are still there
C15_Witness ==
    /\ lastStep.type = "mutationError"
    /\ Len(queryClient.messages) = 3
    /\ queryClient.messages[1] = Message("srv-0", <<"b">>, "user", "sent", 0)
    /\ queryClient.messages[2].status = "sending"
    /\ queryClient.messages[3].status = "failed"

\* C16 (as claimed): when the switch to another conversation fails in the
\* call itself, the messages, groups and app events of the conversation that
\* was loaded are in place after the step
C16_FailedSwitchRestoresTimeline ==
    [][ (/\ lastStep'.type = "selectConversation"
         /\ lastStep'.tag # chatSocket.conversationId
         /\ Len(chatSocket'.settled) > 0
         /\ chatSocket'.settled[1].state = "rejected")
            => /\ widget'.messages = widget.messages
               /\ widget'.dataQueryGroups = widget.dataQueryGroups
               /\ widget'.appEvents = widget.appEvents
      ]_vars

\* C17 (as claimed): the conversation identifier the transport client stores
\* (reports, and replays on reconnect) is one that a received init_ack confirmed
C17_ConversationIdConfirmedByAck ==
    chatSocket.conversationId # NULL => chatSocket.conversationId \in ghost.servedConvs

\* the group id handleInitAck gives the structured tool entry msg
ToolGroupId(msg) ==
    IF msg.historyItemId # NULL THEN msg.historyItemId ELSE "tool-" \o msg.id

\* in history h the structured tool entry at i is followed by the assistant
\* entry at j with no user, tool or assistant entry between them
Describes(h, i, j) ==
    /\ i \in 1..Len(h) /\ j \in (i + 1)..Len(h)
    /\ h[i].role = "tool" /\ h[i].tool = "structured"
    /\ h[j].role = "assistant"
    /\ \A k \in (i + 1)..(j - 1) : h[k].role \notin {"user", "tool", "assistant"}

\* C18: the bootstrap of a history in which a tool entry with a structured
\* result is followed by an assistant entry, no user or tool entry between
\* them, yields exactly one StreamGroup for that tool entry, whose text is the
\* assistant entry's content, and the assistant entry is not in the message list
C18_BootstrapFoldsDescription ==
    lastStep.type = "init_ack" =>
        \A i, j \in 1..Len(ghost.history) :
            Describes(ghost.history, i, j) =>
                /\ Cardinality({k \in 1..Len(widget.dataQueryGroups) :
                        widget.dataQueryGroups[k].groupId = ToolGroupId(ghost.history[i])}) = 1
                /\ widget.dataQueryGroups[GroupIndex(widget.dataQueryGroups,
                        ToolGroupId(ghost.history[i]))].streamingText = ghost.history[j].content
                /\ FindIndex(widget.messages, ghost.history[j].id) = 0

\* a history whose structured result is followed by a system entry and then
\* by its description has been reconstructed: one group, and only the system
\* entry in the message list
C18_Witness ==
    /\ lastStep.type = "init_ack"
    /\ Len(widget.dataQueryGroups) = 1
    /\ Len(widget.messages) = 1
    /\ Describes(ghost.history, 1, 3)
    /\ ghost.history[2].role = "system"

\* the place of a kind among entries of equal timestamp
KindRank(type) ==
    IF type = "message" THEN 1 ELSE IF type = "dataQuery" THEN 2 ELSE 3

\* C19: the timeline shows every message, group and application event once,
\* ordered by non-decreasing timestamp; entries of equal timestamp appear
\* messages first, then groups, then application events, each kind in the
\* order of its source collection
C19_TimelineOrdered ==
    LET t == timeline(widget)
    IN /\ Len(t) = Len(widget.messages) + Len(widget.dataQueryGroups) + Len(widget.appEvents)
       /\ \A i \in 1..Len(t) :
              /\ t[i].type = "message" => t[i].data = widget.messages[t[i].at]
              /\ t[i].type = "dataQuery" => t[i].data = widget.dataQueryGroups[t[i].at]
              /\ t[i].type = "appEvent" => t[i].data = widget.appEvents[t[i].at]
       /\ \A i, j \in 1..Len(t) :
              i < j =>
                 /\ t[i].timestamp <= t[j].timestamp
                 /\ t[i].timestamp = t[j].timestamp =>
                        \/ KindRank(t[i].type) < KindRank(t[j].type)
                        \/ t[i].type = t[j].type /\ t[i].at < t[j].at

\* a group older than a message and an application event as old as a message
\* are on the timeline: the sort moves the group, the tie puts the message first
C19_Witness ==
    /\ \E i \in 1..Len(widget.messages), k \in 1..Len(widget.dataQueryGroups) :
           widget.dataQueryGroups[k].timestamp < widget.messages[i].timestamp
    /\ \E i \in 1..Len(widget.messages), k \in 1..Len(widget.appEvents) :
           widget.appEvents[k].timestamp = widget.messages[i].timestamp

\* the eventHandlers slot that belongs to each type of frame
HandlerOf ==
    {<<"init_ack", "onInitAck">>,
     <<"assistant_message_started", "onAssistantMessageStarted">>,
     <<"assistant_token", "onAssistantToken">>,
     <<"assistant_message_finished", "onAssistantMessageFinished">>,
     <<"app_event", "onAppEvent">>,
     <<"error", "onError">>}

\* C20: a frame of a known type makes the router call the handler of that
\* type and no other; a frame of unknown type makes it call none, and leaves
\* the transport client and the widget as they were
C20_RouterCallsOneHandler ==
    [][/\ \A r \in HandlerOf :
              lastStep'.type = r[1] => chatSocket'.invoked = <<r[2]>>
       /\ lastStep'.type = "unknown" =>
              /\ chatSocket'.invoked = <<>>
              /\ chatSocket' = Begin(chatSocket)
              /\ widget' = widget]_vars

\* a frame of unknown type arrived while an assistant message was streaming
C20_Witness ==
    /\ lastStep.type = "unknown"
    /\ widget.streamingMessageId # NULL
    /\ Len(widget.messages) > 0

\* C21: a user message that is sending while the channel is down keeps its
\* entry and its status sending in every step
C21_SendingSurvivesDrop ==
    [][\A i \in 1..Len(widget.messages) :
           (widget.messages[i].status = "sending" /\ chatSocket.socket # "connected") =>
               /\ FindIndex(widget'.messages, widget.messages[i].id) # 0
               /\ widget'.messages[FindIndex(widget'.messages, widget.messages[i].id)].status
                      = "sending"]_vars

\* C22: the handshake acknowledgment that a reconnect triggers, for the
\* conversation the widget shows, deletes no user message the widget added to
\* the message collection
C22_InitAckKeepsMessages ==
    [][(/\ lastStep'.type = "init_ack"
        /\ lastStep'.tag = widget.conversationId
        /\ \E k \in 1..Len(chatSocket.promises) : chatSocket.promises[k].owner.by = "reinit") =>
           \A n \in 1..widget.sends :
               FindIndex(widget.messages, UserMessageId(n)) # 0 =>
                   FindIndex(widget'.messages, UserMessageId(n)) # 0]_vars

\* C23: after a message-started frame without a group id the message
\* collection holds an entry for that message with status streaming
C23_StartedOpensPendingMessage ==
    (lastStep.type = "assistant_message_started" /\ lastStep.groupId = NULL) =>
        \E i \in 1..Len(widget.messages) :
            /\ widget.messages[i].id \in {lastStep.messageId, StreamingId(lastStep.messageId)}
            /\ widget.messages[i].status = "streaming"

\* C24: a token or an application event that carries the group id of the
\* finished frame processed just before it leaves that group present and not
\* streaming
C24_FinishedGroupStaysTerminal ==
    [][(/\ lastStep.type = "assistant_message_finished"
        /\ lastStep.groupId # NULL
        /\ GroupIndex(widget.dataQueryGroups, lastStep.groupId) # 0
        /\ lastStep'.type \in {"assistant_token", "app_event"}
        /\ lastStep'.groupId = lastStep.groupId) =>
           /\ GroupIndex(widget'.dataQueryGroups, lastStep.groupId) # 0
           /\ ~widget'.dataQueryGroups[GroupIndex(widget'.dataQueryGroups,
                                                  lastStep.groupId)].isStreaming]_vars

\* ------------------------------------------------------------------------
\* Properties of the thinking redaction
\* ------------------------------------------------------------------------
\* what is left of text when the positions in cut are removed
Keep(text, cut) ==
    LET kept == SelectSeq([i \in 1..Len(text) |-> i], LAMBDA i : i \notin cut)
    IN [k \in 1..Len(kept) |-> text[kept[k]]]

Least(S) == CHOOSE a \in S : \A b \in S : a <= b

\* the positions of the properly paired spans from position i on: the first
\* opening tag that has a closing tag behind it, up to the nearest such
\* closing tag, and the paired spans behind that
RECURSIVE PairedSpans(_, _)
PairedSpans(text, i) ==
    LET closes(a) == {b \in (a + Len(OpenTag))..Len(text) : TagAt(text, b, CloseTag)}
        opens == {a \in i..Len(text) : TagAt(text, a, OpenTag) /\ closes(a) # {}}
    IN IF opens = {} THEN {}
       ELSE LET a == Least(opens)
                b == Least(closes(a))
            IN a..(b + Len(CloseTag) - 1) \cup PairedSpans(text, b + Len(CloseTag))

\* the positions from the first opening tag to the end of the text
UnterminatedSpan(text) ==
    {i \in 1..Len(text) : \E a \in 1..i : TagAt(text, a, OpenTag)}

\* the positions of the closing tags
ClosingTags(text) ==
    {i \in 1..Len(text) : \E a \in (i - Len(CloseTag) + 1)..i : TagAt(text, a, CloseTag)}

\* the positions of whitespace that does not separate two words, and of all
\* but the last character of a whitespace run
ExtraWhitespace(text) ==
    {i \in 1..Len(text) :
        /\ IsSpace(text[i])
        /\ \/ \A k \in 1..i : IsSpace(text[k])
           \/ \A k \in i..Len(text) : IsSpace(text[k])
           \/ IsSpace(text[i + 1])}

SingleSpaces(text) == [i \in 1..Len(text) |-> IF IsSpace(text[i]) THEN " " ELSE text[i]]

\* the four passes in their order
FourPasses(text) ==
    LET p1 == Keep(text, PairedSpans(text, 1))
        p2 == Keep(p1, UnterminatedSpan(p1))
        p3 == Keep(p2, ClosingTags(p2))
    IN SingleSpaces(Keep(p3, ExtraWhitespace(p3)))

HasTag(text) ==
    \E i \in 1..Len(text) : TagAt(text, i, OpenTag) \/ TagAt(text, i, CloseTag)

\* C27: the redaction returns what the four passes give in their order: the
\* paired spans removed, then an unterminated opening tag through the end of
\* the text, then the stray closing tags, then every whitespace run collapsed
\* to one space and the text trimmed; a paired span in front of a word leaves
\* the word, an unterminated tag leaves nothing, and a text without tags only
\* has its whitespace collapsed
C27_RedactionIsFourPasses ==
    call.fn = "filterThinkingTags" =>
        /\ call.output = FourPasses(call.input)
        /\ call.input = OpenTag \o <<"x">> \o CloseTag \o <<"y">> => call.output = <<"y">>
        /\ call.input = OpenTag \o <<"x">> => call.output = <<>>
        /\ ~HasTag(call.input) =>
               call.output = SingleSpaces(Keep(call.input, ExtraWhitespace(call.input)))

\* a text with a paired span, a word, whitespace and a stray closing tag has
\* been redacted to the word
C27_Witness ==
    /\ call.fn = "filterThinkingTags"
    /\ call.input = <<"<", "T", ">">> \o <<"x">> \o CloseTag \o <<"y">>
    /\ call.output = <<"y">>

\* C28: the redacted text holds neither an opening nor a closing tag
C28_OutputHasNoTag ==
    call.fn = "filterThinkingTags" => ~HasTag(call.output)

\* ------------------------------------------------------------------------
\* Properties of the output-stack reconstruction
\* ------------------------------------------------------------------------
\* C25: the items of a group are consecutive in the output stack
C25_GroupsAreConsecutive ==
    call.fn = "processOutputStack" =>
        \A g \in 1..Len(call.output.groups) :
            LET items == call.output.groups[g].items
            IN \A a, b \in 1..Len(items) :
                   \A c \in items[a]..items[b] : \E k \in 1..Len(items) : items[k] = c

\* the quick-reply text y occurs n times in text
Occurrences(text) == Cardinality({i \in 1..Len(text) : text[i] = "y"})

\* C26: the message of a group that carries quick replies with a text has
\* that text once in its body: as the whole body when no item of the group has
\* a text of its own, behind the other text otherwise
C26_QuickReplyTextOnce ==
    call.fn = "processOutputStack" =>
        \A g \in 1..Len(call.output.groups) :
            LET group == call.output.groups[g]
                items == group.items
                own == \E k \in 1..Len(items) : call.input[items[k]].text # <<>>
            IN (\E k \in 1..Len(items) :
                    /\ call.input[items[k]].quickReplies.present
                    /\ call.input[items[k]].quickReplies.replies # NoArray
                    /\ call.input[items[k]].quickReplies.text # <<>>) =>
                   \E m \in 1..Len(call.output.messages) :
                       LET body == call.output.messages[m].text
                       IN /\ call.output.messages[m].key = group.key
                          /\ Occurrences(body) = 1
                          /\ body[Len(body)] = "y"
                          /\ ~own => body = <<"y">>

\* ------------------------------------------------------------------------
\* Properties of the timeline across events
\* ------------------------------------------------------------------------
\* what identifies an entry of the timeline: the id of a message, the group id
\* of a group, the position of an application event in its list
EntryKey(item) ==
    [type |-> item.type,
     id |-> IF item.type = "message" THEN item.data.id
            ELSE IF item.type = "dataQuery" THEN item.data.groupId
            ELSE ToString(item.at)]

\* the positions of the entry with key k in timeline t
Positions(t, k) == {i \in 1..Len(t) : EntryKey(t[i]) = k}

\* C29: a token, a finished frame or an application event leaves every two
\* entries that are on the timeline before and after it in the same order
C29_TimelineOrderIsStable ==
    [][lastStep'.type \in {"assistant_token", "assistant_message_finished", "app_event"} =>
           LET before == timeline(widget)
               after == timeline(widget')
           IN \A i, j \in 1..Len(before) :
                  (i < j /\ Positions(after, EntryKey(before[i])) # {}
                         /\ Positions(after, EntryKey(before[j])) # {}) =>
                      \A a \in Positions(after, EntryKey(before[i])),
                         b \in Positions(after, EntryKey(before[j])) : a < b]_vars

\* ------------------------------------------------------------------------
\* Properties of the embedding script
\* ------------------------------------------------------------------------
\* C30: whatever init() calls were made and however they interleave,
\* initWebchat was invoked at most once, at most one analytics service was
\* registered, and all calls that returned got the same instance
C30_InitialisedOnce ==
    /\ cxone.initWebchatCalls <= 1
    /\ cxone.analyticsServices <= 1
    /\ \A j, k \in 1..Len(cxone.calls) :
           (cxone.calls[j].pc = "returned" /\ cxone.calls[k].pc = "returned") =>
               cxone.calls[j].result = cxone.calls[k].result

====
